---- MODULE Spec2Model ----
(***************************************************************************)
(* Model of src/src/Request.ts: the Request class of instagram-connect.    *)
(*                                                                         *)
(* A JavaScript string is a finite sequence of tokens; a token stands for  *)
(* a run of characters holding no double quote, backslash or control       *)
(* character (so that JSON.stringify has nothing to escape).  A JavaScript *)
(* value is a tagged record: S(s) a string, N(n) a number, Undef           *)
(* undefined, A(l) an array of strings.  A JavaScript object is the        *)
(* sequence of its own enumerable properties [k, v] in insertion order.    *)
(***************************************************************************)
EXTENDS Integers, Sequences, FiniteSets, TLC

\* state: client.state, the session state shared by all calls.
\* calls: the send calls made so far, in the order they were started.
\* hookLog: the responses the afterResponse hook has run on, in that order.
\* signArg, signRet: the argument and the result of a direct signData call.
VARIABLES state, calls, hookLog, signArg, signRet

vars == <<state, calls, hookLog, signArg, signRet>>

----------------------------------------------------------------------------
(* JavaScript values and objects *)

S(s) == [t |-> "string", v |-> s]
N(n) == [t |-> "number", v |-> n]
A(l) == [t |-> "array", v |-> l]
Undef == [t |-> "undefined"]

TypeOf(x) == x.t

P(key, value) == [k |-> key, v |-> value]

Keys(obj) == {obj[i].k : i \in 1..Len(obj)}

Has(obj, key) == key \in Keys(obj)

IndexOf(obj, key) == CHOOSE i \in 1..Len(obj) : obj[i].k = key

\* obj[key]: the property's value, undefined when obj has no such property.
Get(obj, key) == IF Has(obj, key) THEN obj[IndexOf(obj, key)].v ELSE Undef

\* obj[key] = value: a new key is appended, an existing key keeps its place.
Put(obj, key, value) ==
    IF Has(obj, key)
    THEN [obj EXCEPT ![IndexOf(obj, key)] = P(key, value)]
    ELSE Append(obj, P(key, value))

\* { ...a, ...b }: a's properties, then b's assigned over them one by one: a
\* key of both keeps its place in a and takes b's value, b's other keys follow.
Spread(a, b) ==
    [i \in 1..Len(a) |->
        IF Has(b, a[i].k) THEN P(a[i].k, Get(b, a[i].k)) ELSE a[i]]
    \o SelectSeq(b, LAMBDA p : ~Has(a, p.k))

\* options.x || {}: an absent (undefined) member counts as the empty object.
OrEmpty(member) == IF member.t = "undefined" THEN <<>> ELSE member.v

----------------------------------------------------------------------------
(* JSON.stringify and JSON.parse on flat objects of strings and numbers *)

DigitTokens == <<"0", "1", "2", "3", "4", "5", "6", "7", "8", "9">>

HexTokens == DigitTokens \o <<"a", "b", "c", "d", "e", "f">>

RECURSIVE Digits(_)
\* The decimal digits of a natural number.
Digits(n) ==
    IF n < 10 THEN <<DigitTokens[n + 1]>>
    ELSE Digits(n \div 10) \o <<DigitTokens[(n % 10) + 1]>>

IsDigit(tok) == \E i \in 1..10 : DigitTokens[i] = tok

DigitValue(tok) == (CHOOSE i \in 1..10 : DigitTokens[i] = tok) - 1

RECURSIVE NumberOf(_)
NumberOf(toks) ==
    IF toks = <<>> THEN 0
    ELSE NumberOf(SubSeq(toks, 1, Len(toks) - 1)) * 10 + DigitValue(toks[Len(toks)])

StringifyValue(x) ==
    IF x.t = "string" THEN <<"\"">> \o x.v \o <<"\"">>
    ELSE Digits(x.v)

RECURSIVE StringifyMembers(_)
StringifyMembers(obj) ==
    IF obj = <<>> THEN <<>>
    ELSE LET m == <<"\"", Head(obj).k, "\"", ":">> \o StringifyValue(Head(obj).v)
         IN  IF Tail(obj) = <<>> THEN m
             ELSE m \o <<",">> \o StringifyMembers(Tail(obj))

\* JSON.stringify(obj): properties whose value is undefined are left out.
Defined(obj) == SelectSeq(obj, LAMBDA p : p.v.t # "undefined")

JSONStringify(obj) == <<"{">> \o StringifyMembers(Defined(obj)) \o <<"}">>

\* The first position at or after i where toks holds tok; Len(toks) + 1 if none.
RECURSIVE Find(_, _, _)
Find(toks, tok, i) ==
    IF i > Len(toks) THEN Len(toks) + 1
    ELSE IF toks[i] = tok THEN i
    ELSE Find(toks, tok, i + 1)

RECURSIVE DigitRunEnd(_, _)
\* The last position of the run of digits that starts at i (i - 1 if none).
DigitRunEnd(toks, i) ==
    IF i > Len(toks) \/ ~IsDigit(toks[i]) THEN i - 1
    ELSE DigitRunEnd(toks, i + 1)

ParseFail == [ok |-> FALSE, value |-> <<>>]

RECURSIVE ParseMembers(_, _, _)
\* The members of toks from position i up to the closing brace, after acc.
ParseMembers(toks, i, acc) ==
    IF i + 4 > Len(toks) \/ toks[i] # "\"" \/ toks[i + 2] # "\"" \/ toks[i + 3] # ":"
    THEN ParseFail
    ELSE LET key == toks[i + 1]
             j == i + 4
             q == Find(toks, "\"", j + 1)
             e == DigitRunEnd(toks, j)
             isString == toks[j] = "\"" /\ q <= Len(toks)
             isNumber == e >= j
             last == IF isString THEN q ELSE e
             val == IF isString THEN S(SubSeq(toks, j + 1, q - 1))
                    ELSE N(NumberOf(SubSeq(toks, j, e)))
         IN  IF ~(isString \/ isNumber) \/ last + 1 > Len(toks) THEN ParseFail
             ELSE IF toks[last + 1] = "}" /\ last + 1 = Len(toks)
                  THEN [ok |-> TRUE, value |-> Put(acc, key, val)]
             ELSE IF toks[last + 1] = ","
                  THEN ParseMembers(toks, last + 2, Put(acc, key, val))
             ELSE ParseFail

\* JSON.parse(text): [ok, value]; ok is FALSE where JSON.parse throws.
JSONParse(toks) ==
    IF Len(toks) < 2 \/ toks[1] # "{" THEN ParseFail
    ELSE IF Len(toks) = 2
         THEN IF toks[2] = "}" THEN [ok |-> TRUE, value |-> <<>>] ELSE ParseFail
    ELSE ParseMembers(toks, 2, <<>>)

----------------------------------------------------------------------------
(* Constants imported from ./constants; their values are opaque here *)

SIGNATURE_KEY == <<"Constants.SIGNATURE_KEY">>

SIGNATURE_VERSION == S(<<"Constants.SIGNATURE_VERSION">>)

API_HOST == <<"Constants.API_HOST">>

LANGUAGE == <<"en", "_", "US">>

----------------------------------------------------------------------------
(* sign and signData *)

\* Number of hex digits of a digest (64 for SHA-256; the digest is abstracted
\* to a keyed polynomial hash of this width).
DigestLen == 4

RECURSIVE Pow16(_)
Pow16(n) == IF n = 0 THEN 1 ELSE 16 * Pow16(n - 1)

\* Every token a signed string can hold, in a fixed order: Code is its number.
Alphabet ==
    HexTokens \o
    <<"{", "}", "\"", ":", ",", ".", "_", "-", "<html>",
      "_csrfToken", "x", "y", "status", "message", "ok", "fail",
      "csrf0", "mine", "en", "US", "Constants.SIGNATURE_KEY">>

Code(tok) == CHOOSE i \in 1..Len(Alphabet) : Alphabet[i] = tok

RECURSIVE Hash(_, _)
Hash(h, toks) ==
    IF toks = <<>> THEN h
    ELSE Hash((h * 31 + Code(Head(toks))) % Pow16(DigestLen), Tail(toks))

RECURSIVE ToHex(_, _)
\* n in lowercase hexadecimal, exactly len digits.
ToHex(n, len) ==
    IF len = 0 THEN <<>>
    ELSE ToHex(n \div 16, len - 1) \o <<HexTokens[(n % 16) + 1]>>

\* createHmac('sha256', key).update(data).digest('hex')
HmacHex(key, data) == ToHex(Hash(Hash(7, key), data), DigestLen)

sign(data) == HmacHex(SIGNATURE_KEY, data)

\* The signature and the signed string in the wrong order.
signDataSwapped(data) ==
    LET string == JSONStringify(data)
        signature == sign(string)
    IN  << P("ig_sig_key_version", SIGNATURE_VERSION),
           P("signed_body", S(string \o <<".">> \o signature)) >>

signData(data) ==
    LET string == JSONStringify(data)
        signature == sign(string)
    IN  << P("ig_sig_key_version", SIGNATURE_VERSION),
           P("signed_body", S(signature \o <<".">> \o string)) >>

----------------------------------------------------------------------------
(* Session state (client.state) *)

\* Date.now() in milliseconds at the first, second, ... call of send: the
\* clock moves on from one call to the next.
Clock == <<1999, 12000, 12001, 13010, 20500>>

Now(cs) == Clock[Len(cs) + 1]

\* A session restored from storage: the tokens of an earlier login are set.
RestoredState ==
    [ csrfToken |-> S(<<"csrf0">>),
      uuid |-> S(<<"uuid0">>),
      deviceId |-> S(<<"android-0">>),
      pigeonSessionId |-> S(<<"pigeon0">>),
      appUserAgent |-> S(<<"Instagram UA">>),
      cookieJar |-> <<P("mid", S(<<"mid0">>))>>,
      authorization |-> S(<<"Bearer 0">>),
      igWWWClaim |-> S(<<"claim0">>),
      passwordEncryptionKeyId |-> S(<<"keyid0">>),
      passwordEncryptionPublicKey |-> S(<<"pubkey0">>) ]

\* A fresh session: identifiers are generated, nothing was received yet.
FreshState ==
    [ RestoredState EXCEPT
        !.cookieJar = <<>>,
        !.authorization = Undef,
        !.igWWWClaim = Undef,
        !.passwordEncryptionKeyId = Undef,
        !.passwordEncryptionPublicKey = Undef ]

\* state.getCookieValue(name)
getCookieValue(st, name) == Get(st.cookieJar, name)

----------------------------------------------------------------------------
(* Default form data and default headers *)

\* get data ()
data(st) == << P("_csrfToken", st.csrfToken) >>

\* String.prototype.replace(from, to) with string arguments: the first match.
Replace(str, from, to) ==
    LET i == Find(str, from, 1)
    IN  IF i > Len(str) THEN str
        ELSE SubSeq(str, 1, i - 1) \o <<to>> \o SubSeq(str, i + 1, Len(str))

\* (ms / 1000).toFixed(3) for a whole number of milliseconds.
ToFixed3(ms) ==
    Digits(ms \div 1000) \o <<".">> \o
    << DigitTokens[((ms % 1000) \div 100) + 1],
       DigitTokens[((ms % 100) \div 10) + 1],
       DigitTokens[(ms % 10) + 1] >>

\* get headers (), with Date.now() = now
headers(st, now) ==
    << P("X-Ads-Opt-Out", S(<<"1">>)),
       P("X-CM-Bandwidth-KBPS", S(<<"-1.000">>)),
       P("X-CM-Latency", S(<<"-1.000">>)),
       P("X-IG-Connection-Speed", S(<<"3700kbps">>)),
       P("X-IG-Bandwidth-Speed-KBPS", S(<<"-1.000">>)),
       P("X-IG-Bandwidth-TotalBytes-B", S(<<"0">>)),
       P("X-IG-Bandwidth-TotalTime-MS", S(<<"0">>)),
       P("X-IG-EU-DC-ENABLED", S(<<"false">>)),
       P("X-IG-Extended-CDN-Thumbnail-Cache-Busting-Value", S(<<"1000">>)),
       P("X-IG-WWW-Claim", S(<<"0">>)),
       P("X-Bloks-Is-Layout-RTL", S(<<"false">>)),
       P("X-FB-HTTP-Engine", S(<<"Liger">>)),
       P("X-Pigeon-Rawclienttime", S(ToFixed3(now))),
       P("X-Pigeon-Session-Id", st.pigeonSessionId),
       P("X-IG-Connection-Type", S(<<"Constants.HEADER_CONNECTION_TYPE">>)),
       P("X-IG-Capabilities", S(<<"Constants.HEADER_CAPABILITIES">>)),
       P("X-IG-App-ID", S(<<"Constants.FACEBOOK_ANALYTICS_APPLICATION_ID">>)),
       P("X-Bloks-Version-Id", S(<<"Constants.BLOKS_VERSION_ID">>)),
       P("X-IG-App-Locale", S(LANGUAGE)),
       P("X-IG-Device-Locale", S(LANGUAGE)),
       P("X-IG-Device-ID", st.uuid),
       P("X-IG-Android-ID", st.deviceId),
       P("X-DEVICE-ID", st.uuid),
       P("X-MID", getCookieValue(st, "mid")),
       P("Accept-Language", S(Replace(LANGUAGE, "_", "-"))),
       P("Accept-Encoding", S(<<"gzip">>)),
       P("User-Agent", st.appUserAgent),
       P("Authorization", st.authorization),
       P("Host", S(API_HOST)),
       P("Connection", S(<<"close">>)) >>

----------------------------------------------------------------------------
(* send: the request handed to got *)

O(obj) == [t |-> "object", v |-> obj]

\* options.method || 'GET': an absent or empty method counts as GET.
MethodOf(options) ==
    IF options.method.t = "undefined" \/ options.method.v = <<>>
    THEN <<"GET">>
    ELSE options.method.v

\* A stale default header set: computed from the restored session, not from
\* the session state at the call.
MergedHeadersCached(st, options, now) ==
    Spread(headers(RestoredState, now), OrEmpty(options.headers))

\* The defaults laid over the caller's headers.
MergedHeadersDefaultsWin(st, options, now) ==
    Spread(OrEmpty(options.headers), headers(st, now))

\* { ...this.headers, ...(options.headers || {}) }
MergedHeaders(st, options, now) ==
    Spread(headers(st, now), OrEmpty(options.headers))

\* The default field laid over the caller's fields.
MergedDataDefaultsWin(st, options) == Spread(OrEmpty(options.data), data(st))

\* { ...this.data, ...(options.data || {}) }
MergedData(st, options) == Spread(data(st), OrEmpty(options.data))

\* The Options object that send passes to this.got.
RequestOptions(st, options, now) ==
    LET hdrs == MergedHeaders(st, options, now)
        dat == MergedData(st, options)
        form == signData(dat)
    IN  [ url |-> options.url,
          method |-> MethodOf(options),
          responseType |-> "json",
          headers |-> hdrs,
          form |-> form ]

\* The raw text of the body in place of the decoded body.
SendResultRaw(response) == S(response.rawBody)

\* return response.body
SendResult(response) == response.body

----------------------------------------------------------------------------
(* The response hook *)

Tracked ==
    << [header |-> "x-ig-set-www-claim", field |-> "igWWWClaim"],
       [header |-> "ig-set-authorization", field |-> "authorization"],
       [header |-> "ig-set-password-encryption-key-id",
        field |-> "passwordEncryptionKeyId"],
       [header |-> "ig-set-password-encryption-pub-key",
        field |-> "passwordEncryptionPublicKey"] >>

\* Every tracked field takes its header's value, whatever that value is.
updateStateUnguarded(st, response) ==
    [f \in DOMAIN st |->
        IF \E i \in 1..4 : Tracked[i].field = f
        THEN Get(response.headers,
                 Tracked[CHOOSE i \in 1..4 : Tracked[i].field = f].header)
        ELSE st[f]]

\* A tracked field is written only while it is still unset.
updateStateFirstWins(st, response) ==
    [f \in DOMAIN st |->
        IF /\ \E i \in 1..4 : Tracked[i].field = f
           /\ st[f].t = "undefined"
           /\ Get(response.headers,
                  Tracked[CHOOSE i \in 1..4 : Tracked[i].field = f].header).t
                = "string"
        THEN Get(response.headers,
                 Tracked[CHOOSE i \in 1..4 : Tracked[i].field = f].header)
        ELSE st[f]]

\* The authorization header is also written over the CSRF token.
updateStateWrongField(st, response) ==
    IF Get(response.headers, "ig-set-authorization").t = "string"
    THEN [st EXCEPT !.csrfToken = Get(response.headers, "ig-set-authorization"),
                    !.authorization = Get(response.headers, "ig-set-authorization")]
    ELSE st

updateStateFromResponse(st, response) ==
    LET igWWWClaim == Get(response.headers, "x-ig-set-www-claim")
        authorization == Get(response.headers, "ig-set-authorization")
        passwordEncryptionKeyId ==
            Get(response.headers, "ig-set-password-encryption-key-id")
        passwordEncryptionPublicKey ==
            Get(response.headers, "ig-set-password-encryption-pub-key")
        s1 == IF TypeOf(igWWWClaim) = "string"
              THEN [st EXCEPT !.igWWWClaim = igWWWClaim] ELSE st
        s2 == IF TypeOf(authorization) = "string"
              THEN [s1 EXCEPT !.authorization = authorization] ELSE s1
        s3 == IF TypeOf(passwordEncryptionKeyId) = "string"
              THEN [s2 EXCEPT !.passwordEncryptionKeyId = passwordEncryptionKeyId]
              ELSE s2
        s4 == IF TypeOf(passwordEncryptionPublicKey) = "string"
              THEN [s3 EXCEPT !.passwordEncryptionPublicKey =
                                   passwordEncryptionPublicKey]
              ELSE s3
    IN  s4

\* afterResponse: updates the state; the response goes on unchanged.
afterResponse(st, response) == updateStateFromResponse(st, response)

----------------------------------------------------------------------------
(* The got instance of the constructor: got.extend({ prefixUrl, cookieJar,  *)
(* hooks: { afterResponse } }).  No other option is set, so the instance    *)
(* keeps got's defaults: retry (limit 2, on the methods, status codes and   *)
(* error codes below) and throwHttpErrors (a response that is not ok        *)
(* rejects the promise with an HTTPError).                                  *)

\* retry.limit
RETRY_LIMIT == 2

\* retry.methods
RetryMethods ==
    {<<"GET">>, <<"PUT">>, <<"HEAD">>, <<"DELETE">>, <<"OPTIONS">>, <<"TRACE">>}

\* retry.statusCodes
RetryStatusCodes == {408, 413, 429, 500, 502, 503, 504, 521, 522, 524}

\* retry.errorCodes
RetryErrorCodes ==
    {"ETIMEDOUT", "ECONNRESET", "EADDRINUSE", "ECONNREFUSED", "EPIPE",
     "ENOTFOUND", "ENETUNREACH", "EAI_AGAIN"}

\* throwHttpErrors
ThrowHttpErrors == TRUE

\* Methods whose request got refuses to give a body (allowGetBody is unset).
BodylessMethods == {<<"GET">>, <<"HEAD">>}

IsResponseOk(statusCode) == statusCode \in 200..299 \/ statusCode = 304

\* Whether got issues the request again after attempt number `attempt` failed.
Retries(method, attempt, retryable) ==
    /\ method \in RetryMethods
    /\ retryable
    /\ attempt <= RETRY_LIMIT

\* The hooks run on ok responses alone.
AfterResponseRunsOkOnly(ok, parsed) == IF ok THEN {TRUE} ELSE {FALSE}

\* The afterResponse hooks run on every response received, whatever its
\* status.  Where the body of an ok response does not parse, the got version
\* decides whether the ParseError is raised before the hooks (11) or after
\* them (10): both outcomes are kept.
AfterResponseRuns(ok, parsed) ==
    IF parsed \/ ~ok THEN {TRUE} ELSE {TRUE, FALSE}

\* cookieJar: the transport stores the cookies of a response's set-cookie.
RECURSIVE StoreCookies(_, _)
StoreCookies(jar, cookies) ==
    IF cookies = <<>> THEN jar
    ELSE StoreCookies(Put(jar, Head(cookies)[1], S(<<Head(cookies)[3]>>)),
                      Tail(cookies))

SetCookie(jar, hdrs) ==
    IF Get(hdrs, "set-cookie").t = "array"
    THEN StoreCookies(jar, Get(hdrs, "set-cookie").v)
    ELSE jar

----------------------------------------------------------------------------
(* Inputs *)

\* Most send calls of one run.
MaxCalls == 2

\* The request descriptors a caller passes to send: every member absent or
\* empty; an empty data; overrides that collide with a default header and with
\* the default form field, next to keys of their own.
Descriptors ==
    { [url |-> <<"foo">>, method |-> Undef, headers |-> O(<<>>), data |-> Undef],
      [url |-> <<"foo">>, method |-> S(<<"POST">>), headers |-> Undef,
       data |-> O(<<>>)],
      [url |-> <<"foo">>, method |-> S(<<"PUT">>),
       headers |-> O(<<P("Authorization", S(<<"Bearer mine">>)),
                       P("X-Custom", S(<<"1">>))>>),
       data |-> O(<<P("x", N(1)), P("_csrfToken", S(<<"mine">>))>>)] }

JsonHeader == P("content-type", S(<<"application/json">>))

NoneTracked == <<JsonHeader>>

AllTracked ==
    <<JsonHeader,
      P("x-ig-set-www-claim", S(<<"claim1">>)),
      P("ig-set-authorization", S(<<"Bearer 1">>)),
      P("ig-set-password-encryption-key-id", S(<<"keyid1">>)),
      P("ig-set-password-encryption-pub-key", S(<<"pubkey1">>))>>

\* Duplicate headers surfaced as arrays, next to one string.
ArrayTracked ==
    <<JsonHeader,
      P("x-ig-set-www-claim", A(<< <<"claim2">>, <<"claim3">> >>)),
      P("ig-set-authorization", A(<< <<"Bearer 3">>, <<"Bearer 4">> >>)),
      P("ig-set-password-encryption-key-id", S(<<"keyid2">>))>>

AuthAndCookie ==
    <<JsonHeader,
      P("ig-set-authorization", S(<<"Bearer 2">>)),
      P("set-cookie", A(<< <<"mid", "=", "mid1">> >>))>>

ClaimOnly == <<JsonHeader, P("x-ig-set-www-claim", S(<<"claim4">>))>>

OkBody == JSONStringify(<<P("status", S(<<"ok">>))>>)

FailBody == JSONStringify(<<P("message", S(<<"fail">>)), P("status", N(0))>>)

\* A body cut short: not valid JSON.
CutBody == <<"{", "\"", "status", "\"", ":">>

\* What the server may answer: [statusCode, headers, rawBody].
Responses ==
    { [statusCode |-> 200, headers |-> NoneTracked, rawBody |-> OkBody],
      [statusCode |-> 200, headers |-> AllTracked, rawBody |-> OkBody],
      [statusCode |-> 200, headers |-> ArrayTracked, rawBody |-> OkBody],
      [statusCode |-> 200, headers |-> AuthAndCookie, rawBody |-> CutBody],
      [statusCode |-> 404, headers |-> AuthAndCookie, rawBody |-> FailBody],
      [statusCode |-> 503, headers |-> ClaimOnly, rawBody |-> <<"<html>">>] }

\* The error codes of a failed connection: one got retries on, one it does not.
NetworkErrorCodes == {"ECONNRESET", "ERR_TLS_CERT_ALTNAME_INVALID"}

----------------------------------------------------------------------------
(* State machine *)

NoResponse ==
    [received |-> FALSE, attempt |-> 0, statusCode |-> 0, headers |-> <<>>,
     rawBody |-> <<>>, body |-> Undef]

NoError == [name |-> "", code |-> "", statusCode |-> 0]

\* A send call: the descriptor, the Options handed to got, where the call
\* stands (awaiting this.got, promise settled, returned, threw), the number
\* of HTTP requests issued, how many of them failed on the network, how the
\* last one ended, the last response, the rejection, and send's result; now
\* and before record Date.now() and the session state at the call.
NewCall(st, options, now) ==
    [ options |-> options,
      request |-> RequestOptions(st, options, now),
      now |-> now,
      before |-> st,
      pc |-> "awaiting",
      attempts |-> 0,
      netErrors |-> 0,
      last |-> "",
      response |-> NoResponse,
      error |-> NoError,
      result |-> Undef ]

InitCommon ==
    /\ state \in {FreshState, RestoredState}
    /\ hookLog = <<>>

Init ==
    /\ InitCommon
    /\ calls = <<>>
    /\ signArg = <<>>
    /\ signRet = <<>>

\* send(options) up to its await: the request is built and handed to got.
Send(options) ==
    /\ Len(calls) < MaxCalls
    /\ calls' = Append(calls, NewCall(state, options, Now(calls)))
    /\ UNCHANGED <<state, hookLog, signArg, signRet>>

\* got refuses the arguments before any request is issued: a form on a GET
\* or HEAD request is a TypeError where allowGetBody is unset.  The refusal is
\* got's own, so a call with such a method may also go on to the network.
GotRejectsBody(c) ==
    /\ calls[c].pc = "awaiting"
    /\ calls[c].attempts = 0
    /\ calls[c].request.method \in BodylessMethods
    /\ calls' = [calls EXCEPT ![c].pc = "settled",
                              ![c].error = [NoError EXCEPT !.name = "TypeError"]]
    /\ UNCHANGED <<state, hookLog, signArg, signRet>>

\* One HTTP request that fails on the network with error code `code`.
NetworkError(c, code) ==
    LET call == calls[c]
        n == call.attempts + 1
        again == Retries(call.request.method, n, code \in RetryErrorCodes)
    IN  /\ call.pc = "awaiting"
        /\ calls' = [calls EXCEPT
              ![c].attempts = n,
              ![c].netErrors = call.netErrors + 1,
              ![c].last = code,
              ![c].pc = IF again THEN "awaiting" ELSE "settled",
              ![c].error = IF again THEN NoError
                           ELSE [name |-> "RequestError", code |-> code,
                                 statusCode |-> 0]]
        /\ UNCHANGED <<state, hookLog, signArg, signRet>>

\* One HTTP request that is answered by r: the cookies are stored, the body
\* is parsed, the afterResponse hook runs, then the promise settles or the
\* request is retried.
Response(c, r, hook) ==
    LET call == calls[c]
        n == call.attempts + 1
        parse == JSONParse(r.rawBody)
        ok == IsResponseOk(r.statusCode)
        response == [received |-> TRUE, attempt |-> n, statusCode |-> r.statusCode,
                     headers |-> r.headers, rawBody |-> r.rawBody,
                     body |-> IF parse.ok THEN O(parse.value) ELSE S(r.rawBody)]
        stored == [state EXCEPT !.cookieJar = SetCookie(@, r.headers)]
        again == Retries(call.request.method, n, r.statusCode \in RetryStatusCodes)
        outcome ==
            IF ok /\ ~parse.ok
                THEN [pc |-> "settled",
                      error |-> [NoError EXCEPT !.name = "ParseError"]]
            ELSE IF ok \/ ~ThrowHttpErrors
                THEN [pc |-> "settled", error |-> NoError]
            ELSE IF again
                THEN [pc |-> "awaiting", error |-> NoError]
            ELSE [pc |-> "settled",
                  error |-> [name |-> "HTTPError", code |-> "",
                             statusCode |-> r.statusCode]]
    IN  /\ call.pc = "awaiting"
        /\ hook \in AfterResponseRuns(ok, parse.ok)
        /\ state' = IF hook THEN afterResponse(stored, response) ELSE stored
        /\ hookLog' = IF hook
                      THEN Append(hookLog, [call |-> c, attempt |-> n,
                                            headers |-> r.headers])
                      ELSE hookLog
        /\ calls' = [calls EXCEPT
              ![c].attempts = n,
              ![c].last = "response",
              ![c].response = response,
              ![c].pc = outcome.pc,
              ![c].error = outcome.error]
        /\ UNCHANGED <<signArg, signRet>>

\* send with the rejection caught and dropped: it returns undefined.
ResumeSwallowed(c) ==
    /\ calls[c].pc = "settled"
    /\ calls' = [calls EXCEPT
          ![c].pc = "returned",
          ![c].result = IF calls[c].error = NoError
                        THEN SendResult(calls[c].response) ELSE Undef]
    /\ UNCHANGED <<state, hookLog, signArg, signRet>>

\* send after its await: it returns response.body, or the rejection is thrown.
Resume(c) ==
    LET call == calls[c]
    IN  /\ call.pc = "settled"
        /\ calls' = [calls EXCEPT
              ![c].pc = IF call.error = NoError THEN "returned" ELSE "threw",
              ![c].result = IF call.error = NoError
                            THEN SendResult(call.response) ELSE Undef]
        /\ UNCHANGED <<state, hookLog, signArg, signRet>>

Next ==
    \/ \E options \in Descriptors : Send(options)
    \/ \E c \in 1..Len(calls) : GotRejectsBody(c)
    \/ \E c \in 1..Len(calls), code \in NetworkErrorCodes : NetworkError(c, code)
    \/ \E c \in 1..Len(calls), r \in Responses, hook \in BOOLEAN : Response(c, r, hook)
    \/ \E c \in 1..Len(calls) : Resume(c)

Spec == Init /\ [][Next]_vars

----------------------------------------------------------------------------
(* signData on its own: any field mapping is signed once *)

\* Most fields of a mapping handed to signData.
MaxFields == 2

FieldKeys == {"_csrfToken", "x", "y"}

FieldValues ==
    {S(<<"csrf0">>), S(<<"x", ".", "y">>), S(<<>>), N(1), N(120), Undef}

FieldPairs == {P(k, v) : k \in FieldKeys, v \in FieldValues}

\* The objects of at most MaxFields properties: no key twice.
FieldMappings ==
    { f \in UNION {[1..n -> FieldPairs] : n \in 0..MaxFields} :
        \A i, j \in 1..Len(f) : i # j => f[i].k # f[j].k }

InitSign ==
    /\ InitCommon
    /\ calls = <<>>
    /\ signArg \in FieldMappings
    /\ signRet = <<>>

\* signData(signArg) is called and returns.
SignDataCall ==
    /\ signRet = <<>>
    /\ signRet' = signData(signArg)
    /\ UNCHANGED <<state, calls, hookLog, signArg>>

NextSign == SignDataCall

SpecSign == InitSign /\ [][NextSign]_vars

----------------------------------------------------------------------------
(* Properties *)

Completed(call) == call.pc \in {"returned", "threw"}

\* The hook ran in this step; Hooked is the response it ran on.
HookStep == hookLog' # hookLog

Hooked == hookLog'[Len(hookLog')]

\* C1: after the response hook has run on a response, each of the four tracked
\* session-state fields, independently of the other three, holds its header's
\* value if that header is a single string, and its value from before the
\* response if the header is absent or is not a string; no field is cleared.
C1_HookWritesStringHeadersOnly ==
    [][HookStep =>
        \A i \in 1..4 :
            LET v == Get(Hooked.headers, Tracked[i].header)
            IN  /\ v.t = "string" => state'[Tracked[i].field] = v
                /\ v.t # "string" =>
                       state'[Tracked[i].field] = state[Tracked[i].field]
                /\ state[Tracked[i].field].t = "string" =>
                       state'[Tracked[i].field].t = "string"]_vars

\* A hook ran on a response with two tracked headers as arrays, one as a
\* string and one absent: the string was taken, the other three were kept.
C1_Witness ==
    /\ Len(hookLog) = 1
    /\ hookLog[1].headers = ArrayTracked
    /\ state.passwordEncryptionKeyId = S(<<"keyid2">>)
    /\ state.authorization = S(<<"Bearer 0">>)
    /\ state.igWWWClaim = S(<<"claim0">>)
    /\ state.passwordEncryptionPublicKey = S(<<"pubkey0">>)

\* The signed_body of a form, cut at its first dot.
SignedBody(form) == Get(form, "signed_body").v

SignaturePart(form) ==
    SubSeq(SignedBody(form), 1, Find(SignedBody(form), ".", 1) - 1)

JsonPart(form) ==
    SubSeq(SignedBody(form), Find(SignedBody(form), ".", 1) + 1,
           Len(SignedBody(form)))

IsEnvelope(form) ==
    /\ Len(form) = 2
    /\ form[1] = P("ig_sig_key_version", SIGNATURE_VERSION)
    /\ form[2].k = "signed_body"
    /\ form[2].v.t = "string"
    /\ Len(SignaturePart(form)) = DigestLen
    /\ \A i \in 1..DigestLen :
           \E d \in 1..16 : HexTokens[d] = SignaturePart(form)[i]
    /\ SignaturePart(form) = sign(JsonPart(form))

\* C2: whatever descriptor.data is (absent, empty, colliding with _csrfToken),
\* the body handed to the transport by a send is the signed envelope of the
\* default field (the CSRF token at the call) merged with the caller's fields,
\* the caller's value winning on a collision; the fields travel in no other
\* member of the request, and the body is the same on every later attempt.
C2_BodyIsSignedMerge ==
    [][/\ \A c \in 1..Len(calls) : calls'[c].request.form = calls[c].request.form
       /\ Len(calls') > Len(calls) =>
            LET call == calls'[Len(calls')]
                own == OrEmpty(call.options.data)
                sent == JSONParse(JsonPart(call.request.form))
            IN  /\ DOMAIN call.request =
                       {"url", "method", "responseType", "headers", "form"}
                /\ IsEnvelope(call.request.form)
                /\ sent.ok
                /\ Keys(sent.value) = {"_csrfToken"} \cup Keys(own)
                /\ \A k \in Keys(own) : Get(sent.value, k) = Get(own, k)
                /\ ~Has(own, "_csrfToken") =>
                       Get(sent.value, "_csrfToken") = state.csrfToken]_vars

\* A request whose caller overrode _csrfToken and added a field of its own.
C2_Witness ==
    \E c \in 1..Len(calls) :
        /\ Has(OrEmpty(calls[c].options.data), "_csrfToken")
        /\ JSONParse(JsonPart(calls[c].request.form)).value =
               <<P("_csrfToken", S(<<"mine">>)), P("x", N(1))>>

\* C3: the headers handed to the transport by a send have the keys of the
\* defaults and of the caller's overrides and no other; every override carries
\* the caller's value and every default that is not overridden carries its
\* default value; the headers are the same on every later attempt.
C3_HeadersAreMerge ==
    [][/\ \A c \in 1..Len(calls) :
              calls'[c].request.headers = calls[c].request.headers
       /\ Len(calls') > Len(calls) =>
            LET call == calls'[Len(calls')]
                A0 == headers(state, call.now)
                B0 == OrEmpty(call.options.headers)
                sent == call.request.headers
            IN  /\ Keys(sent) = Keys(A0) \cup Keys(B0)
                /\ Len(sent) = Cardinality(Keys(sent))
                /\ \A k \in Keys(B0) : Get(sent, k) = Get(B0, k)
                /\ \A k \in Keys(A0) \ Keys(B0) : Get(sent, k) = Get(A0, k)]_vars

\* A request with one default overridden and one header added.
C3_Witness ==
    \E c \in 1..Len(calls) :
        /\ Get(calls[c].request.headers, "Authorization") = S(<<"Bearer mine">>)
        /\ calls[c].before.authorization = S(<<"Bearer 1">>)
        /\ Get(calls[c].request.headers, "X-Custom") = S(<<"1">>)
        /\ Len(calls[c].request.headers) = 31

\* The hook has run on the last response the call received.
HookRanOnResponse(c) ==
    \E i \in 1..Len(hookLog) :
        /\ hookLog[i].call = c
        /\ hookLog[i].attempt = calls[c].response.attempt
        /\ hookLog[i].headers = calls[c].response.headers

FailedOnNetwork(call) == call.last \notin {"", "response"}

RECURSIVE LastWritten(_, _, _)
LastWritten(log, header, v0) ==
    IF log = <<>> THEN v0
    ELSE IF Get(log[Len(log)].headers, header).t = "string"
         THEN Get(log[Len(log)].headers, header)
    ELSE LastWritten(SubSeq(log, 1, Len(log) - 1), header, v0)

\* C6: once all the concurrent send calls have completed, each tracked field
\* holds the value of the response whose hook ran last among those carrying
\* its header as a string, whatever the order the calls were started in.
C6_LastResponseWins ==
    (calls # <<>> /\ \A c \in 1..Len(calls) : Completed(calls[c])) =>
        \A i \in 1..4 :
            state[Tracked[i].field] =
                LastWritten(hookLog, Tracked[i].header,
                            calls[1].before[Tracked[i].field])

\* Two calls, both answered with an authorization: the call started first was
\* answered last, and its value is the one in the session state.
C6_Witness ==
    /\ Len(calls) = 2
    /\ \A c \in 1..2 : Completed(calls[c])
    /\ Len(hookLog) = 2
    /\ hookLog[1].call = 2
    /\ hookLog[2].call = 1
    /\ Get(hookLog[1].headers, "ig-set-authorization") = S(<<"Bearer 2">>)
    /\ Get(hookLog[2].headers, "ig-set-authorization") = S(<<"Bearer 1">>)
    /\ state.authorization = S(<<"Bearer 1">>)

\* C7: signData(f) returns two fields: ig_sig_key_version, the fixed version,
\* and signed_body, the signature, a dot, and the JSON of f in insertion
\* order; the signature is that of the JSON after the dot; the session state
\* is left as it was.
C7_SignDataEnvelope ==
    [][signRet' # signRet =>
        /\ IsEnvelope(signRet')
        /\ JsonPart(signRet') = JSONStringify(signArg)
        /\ JSONParse(JsonPart(signRet')) =
               [ok |-> TRUE, value |-> Defined(signArg)]
        /\ state' = state]_vars

\* Two fields were signed, the first holding a dot, in their order.
C7_Witness ==
    /\ signRet # <<>>
    /\ signArg = <<P("y", S(<<"x", ".", "y">>)), P("_csrfToken", N(120))>>
    /\ JsonPart(signRet) =
           <<"{", "\"", "y", "\"", ":", "\"", "x", ".", "y", "\"", ",",
             "\"", "_csrfToken", "\"", ":", "1", "2", "0", "}">>

Started == calls'[Len(calls')]

Untracked ==
    {"csrfToken", "uuid", "deviceId", "pigeonSessionId", "appUserAgent"}

\* C10: no step of the component changes csrfToken, uuid, deviceId,
\* pigeonSessionId or appUserAgent; a hook that runs on a response with none
\* of the four tracked headers changes no field of the session state (the
\* cookie store belongs to the transport) and raises no error: an ok response
\* with a valid body still resolves.
C10_OnlyTrackedFieldsWritten ==
    [][/\ \A f \in Untracked : state'[f] = state[f]
       /\ (HookStep /\ \A i \in 1..4 : ~Has(Hooked.headers, Tracked[i].header)) =>
              /\ state' = [state EXCEPT !.cookieJar = state'.cookieJar]
              /\ \A c \in 1..Len(calls) :
                     (/\ calls'[c] # calls[c]
                      /\ IsResponseOk(calls'[c].response.statusCode)
                      /\ calls'[c].response.body.t = "object")
                         => calls'[c].error = NoError]_vars

\* Hooks ran on a response with all four tracked headers and on one with
\* none; the sends are over and the other fields are as they were.
C10_Witness ==
    /\ Len(hookLog) = 2
    /\ hookLog[1].headers = AllTracked
    /\ hookLog[2].headers = NoneTracked
    /\ \A c \in 1..Len(calls) : Completed(calls[c])
    /\ state.authorization = S(<<"Bearer 1">>)
    /\ \A f \in Untracked : state[f] = FreshState[f]

====
